---- MODULE Spec2Model ----
(***************************************************************************)
(* Room coordination service of the collaborative editor: the socket.io    *)
(* event handlers of server.js (joinRoom, peer-id, code-change,            *)
(* chat-message, disconnect, requestUserList) over the process-wide maps   *)
(* rooms, socketToClientMap and socketToRoomMap, together with the part of *)
(* the Editor client that sends and receives buffer text.                  *)
(*                                                                         *)
(* Every handler runs to completion (one action per handled event).  The   *)
(* messages a handler emits are recorded, in emission order, in `out`;     *)
(* each entry names the set of sockets the emission is addressed to.       *)
(***************************************************************************)
EXTENDS Integers, Sequences, FiniteSets, TLC

\* ------------------------------------------------------------------ bounds
\* sockets that attach during a run
NumConns == 3
\* events the service handles in a run of Spec
MaxEvents == 6
\* code-change events in flight from or to one socket
MaxQueue == 2
\* edits typed into one Editor in a run of SpecSync
MaxEdits == 1
\* userList events that are lost on their way to the Editors in a run of SpecPresence
MaxMissed == 1

Conns == 1..NumConns
RoomIds == {"r1", "r2"}
Names == {"alice", "Alice", "bob"}
Codes == {"", "x", "y"}
Texts == {"", "x"}
PeerIds == {"p"}
ClientIds == {"k"}
Null == "null"
Undefined == "undefined"

VARIABLES
    status,             \* socket lifecycle: "idle" (not yet attached), "open", "closed"
    rooms,              \* const rooms = new Map(): roomId -> [users, code]
    socketToClientMap,  \* socket id -> clientId
    socketToRoomMap,    \* socket id -> roomId
    socketRooms,        \* socket.rooms without the socket's own id, in insertion order
    out,                \* emissions of the handler that ran last
    clientCode,         \* Editor state `code` of the client behind each socket
    uplink,             \* code-change events sent by a client, not yet handled
    inbox,              \* code-change events sent to a client, not yet received
    events,             \* number of events the service has handled
    joinSent,           \* the Editor behind a socket has emitted its joinRoom
    edits,              \* number of edits typed into the Editor behind a socket
    tabs,               \* browser tabs: the page shown, the Home form, the socket
    presence            \* the Editor behind each socket: its member list and its peer

serverVars == <<status, rooms, socketToClientMap, socketToRoomMap, socketRooms, out>>
clientVars == <<clientCode, uplink, inbox, joinSent, edits, tabs, presence>>
vars == <<status, rooms, socketToClientMap, socketToRoomMap, socketRooms, out,
          clientCode, uplink, inbox, events, joinSent, edits, tabs, presence>>

\* ------------------------------------------------------- library semantics
\* String.prototype.toLowerCase on the names of the model
toLowerCase(n) == IF n = "Alice" THEN "alice" ELSE n

\* Map.prototype.delete / Map.prototype.set on a map held as a function
MapDelete(m, k) == [x \in DOMAIN m \ {k} |-> m[x]]
MapPut(m, k, v) == [x \in DOMAIN m \cup {k} |-> IF x = k THEN v ELSE m[x]]

\* room.users is a Map in insertion order, held as a sequence of user records
UsersHas(users, id) == \E i \in 1..Len(users) : users[i].id = id
UsersIndex(users, id) == CHOOSE i \in 1..Len(users) : users[i].id = id
UsersGet(users, id) == users[UsersIndex(users, id)]
\* a set that always adds a record at the end
UsersSetAppend(users, id, rec) == Append(users, rec)
\* Map.set keeps the position of a key that is already present
UsersSet(users, id, rec) ==
    IF UsersHas(users, id)
    THEN [users EXCEPT ![UsersIndex(users, id)] = rec]
    ELSE Append(users, rec)
\* a delete that leaves the record where it is
UsersDeleteNone(users, id) == users
UsersDelete(users, id) == SelectSeq(users, LAMBDA u : u.id # id)

\* the sockets an emission to the broadcast group of a room reaches
Group(subs, st, roomId) ==
    {c \in Conns : st[c] = "open" /\ \E i \in 1..Len(subs[c]) : subs[c][i] = roomId}

\* new Map()
EmptyMap == [x \in {} |-> Null]

Msg(to, ev, data) == [to |-> to, ev |-> ev, data |-> data]

\* Array.from(socket.rooms)[1]: the first joined room, undefined if none
FirstRoom(s) == IF Len(socketRooms[s]) > 0 THEN socketRooms[s][1] ELSE Undefined

\* the browser tabs of a run, and the Home page as it is first shown:
\* useState('') for username, roomId and error, useState(false) for
\* isLoading, no answer of the name check and no socket yet
Tabs == 1..(NumConns - 1)
NoSocket == 0
NewTab ==
    [page |-> "home", phase |-> "none", username |-> "", roomId |-> "",
     error |-> "", isLoading |-> FALSE, response |-> "none", sock |-> NoSocket]

\* the Editor behind a socket before it is mounted: useState([]) for
\* connectedUsers, no Peer yet, no userList event on its way
NewEditor ==
    [mounted |-> "no", connectedUsers |-> <<>>, lists |-> <<>>,
     peer |-> "none", announce |-> FALSE, missed |-> 0]

\* ------------------------------------------------------------------- Init
Init ==
    /\ status = [c \in Conns |-> "idle"]
    /\ rooms = EmptyMap
    /\ socketToClientMap = EmptyMap
    /\ socketToRoomMap = EmptyMap
    /\ socketRooms = [c \in Conns |-> <<>>]
    /\ out = <<>>
    /\ clientCode = [c \in Conns |-> ""]
    /\ uplink = [c \in Conns |-> <<>>]
    /\ inbox = [c \in Conns |-> <<>>]
    /\ events = 0
    /\ joinSent = [c \in Conns |-> FALSE]
    /\ edits = [c \in Conns |-> 0]
    /\ tabs = [t \in Tabs |-> NewTab]
    /\ presence = [c \in Conns |-> NewEditor]

\* ---------------------------------------------------- io.on('connection')
connection(s, clientId, roomIdFromQuery) ==
    /\ status[s] = "idle"
    /\ status' = [status EXCEPT ![s] = "open"]
    /\ out' = <<Msg({s}, "connection_established", s)>>
    /\ socketToClientMap' =
         IF clientId # Undefined THEN MapPut(socketToClientMap, s, clientId)
         ELSE socketToClientMap
    /\ socketToRoomMap' =
         IF clientId # Undefined /\ roomIdFromQuery # Undefined
         THEN MapPut(socketToRoomMap, s, roomIdFromQuery)
         ELSE socketToRoomMap
    /\ UNCHANGED <<rooms, socketRooms>>

\* ------------------------------------------------- socket.on('joinRoom')
\* the name check with the names compared as written
usernameTakenExact(users, username, s) ==
    \E i \in 1..Len(users) : users[i].username = username /\ users[i].id # s

\* the name check of the join: another record holds the name, ignoring case
usernameTaken(users, username, s) ==
    \E i \in 1..Len(users) :
        /\ toLowerCase(users[i].username) = toLowerCase(username)
        /\ users[i].id # s

\* a room created with text left in its buffer
NewRoomDirty == [users |-> <<>>, code |-> "x"]

\* rooms.set(roomId, { users: new Map(), code: '' })
NewRoom == [users |-> <<>>, code |-> ""]

\* a record that lists its socket twice
NewUserShared(s, username) ==
    [id |-> s, username |-> username, peerId |-> Null, sockets |-> <<s, s>>]

\* the record room.users.set(socket.id, ...) stores
NewUser(s, username) ==
    [id |-> s, username |-> username, peerId |-> Null, sockets |-> <<s>>]

\* .map(user => ({ id, username, peerId }))
Entry(u) == [id |-> u.id, username |-> u.username, peerId |-> u.peerId]
MapEntries(users) == [i \in 1..Len(users) |-> Entry(users[i])]

\* .filter((user, index, self) => index === self.findIndex(u => key(u) === key(user)))
\* with keys[i] the key of users[i]
FilterFirst(users, keys) ==
    LET keep(i) == \A j \in 1..(i - 1) : keys[j] # keys[i]
        F[n \in 0..Len(users)] ==
            IF n = 0 THEN <<>>
            ELSE IF keep(n) THEN Append(F[n - 1], users[n]) ELSE F[n - 1]
    IN F[Len(users)]

\* the member list of the join: duplicates dropped by lower-cased name
JoinUserList(users) ==
    MapEntries(FilterFirst(users,
        [i \in 1..Len(users) |-> toLowerCase(users[i].username)]))

\* the socket.rooms of s after the forEach(room => socket.leave(room))
LeavePrevious(s) == [socketRooms EXCEPT ![s] = <<>>]

\* an admitted join that sends the buffer to the whole room
JoinEmitsShared(s, username, roomId, room, subs) ==
    << Msg(Group(subs, status, roomId), "code-change", room.code),
       Msg(Group(subs, status, roomId), "userList", JoinUserList(room.users)),
       Msg(Group(subs, status, roomId) \ {s}, "userJoined", username),
       Msg({s}, "joinedRoom", [roomId |-> roomId, userCount |-> Len(room.users)]) >>

\* the emissions of an admitted join, in the order of the handler
JoinEmits(s, username, roomId, room, subs) ==
    << Msg({s}, "code-change", room.code),
       Msg(Group(subs, status, roomId), "userList", JoinUserList(room.users)),
       Msg(Group(subs, status, roomId) \ {s}, "userJoined", username),
       Msg({s}, "joinedRoom", [roomId |-> roomId, userCount |-> Len(room.users)]) >>

\* a refusal that also tells the sockets of the sender's previous rooms
RejectEmitsLoud(s, username) ==
    << Msg({s}, "joinRejected", [reason |-> "username_taken", username |-> username]),
       Msg({c \in Conns : status[c] = "open"}, "userList", <<>>) >>

\* the emission of a refused join
RejectEmits(s, username) ==
    << Msg({s}, "joinRejected", [reason |-> "username_taken", username |-> username]) >>

joinRoom(s, username, roomId) ==
    /\ status[s] = "open"
    /\ LET roomExists == roomId \in DOMAIN rooms
           left == LeavePrevious(s)
       IN IF roomExists /\ usernameTaken(rooms[roomId].users, username, s)
          THEN /\ socketRooms' = left
               /\ out' = RejectEmits(s, username)
               /\ UNCHANGED <<status, rooms, socketToClientMap, socketToRoomMap>>
          ELSE LET room0 == IF roomExists THEN rooms[roomId] ELSE NewRoom
                   room1 == [room0 EXCEPT
                               !.users = UsersSet(room0.users, s, NewUser(s, username))]
                   subs1 == [left EXCEPT ![s] = Append(left[s], roomId)]
               IN /\ rooms' = MapPut(rooms, roomId, room1)
                  /\ socketRooms' = subs1
                  /\ socketToRoomMap' = MapPut(socketToRoomMap, s, roomId)
                  /\ out' = JoinEmits(s, username, roomId, room1, subs1)
                  /\ UNCHANGED <<status, socketToClientMap>>

\* const roomId = socketToRoomMap.get(socket.id) || Array.from(socket.rooms)[1]
LookupRoom(s) ==
    IF s \in DOMAIN socketToRoomMap THEN socketToRoomMap[s] ELSE FirstRoom(s)

\* a member list with the newest member first
PlainUserListNewestFirst(users) ==
    [i \in 1..Len(users) |-> Entry(users[Len(users) + 1 - i])]

\* the member list of peer-id and requestUserList: no duplicates dropped
PlainUserList(users) == MapEntries(users)

\* --------------------------------------------------- socket.on('peer-id')
peerId(s, id) ==
    /\ status[s] = "open"
    /\ LET roomId == LookupRoom(s)
       IN IF roomId # Undefined /\ roomId \in DOMAIN rooms
             /\ UsersHas(rooms[roomId].users, s)
          THEN LET room == rooms[roomId]
                   user == [UsersGet(room.users, s) EXCEPT !.peerId = id]
                   users1 == UsersSet(room.users, s, user)
               IN /\ rooms' = MapPut(rooms, roomId, [room EXCEPT !.users = users1])
                  /\ out' = << Msg(Group(socketRooms, status, roomId), "userList",
                                   PlainUserList(users1)) >>
          ELSE /\ out' = <<>>
               /\ UNCHANGED rooms
    /\ UNCHANGED <<status, socketToClientMap, socketToRoomMap, socketRooms>>

\* ----------------------------------------------- socket.on('code-change')
\* an edit that is forwarded to nobody
CodeChangeTargetsNone(s, roomId) == {}

\* socket.to(roomId): the broadcast group of the room without the sender
CodeChangeTargets(s, roomId) == Group(socketRooms, status, roomId) \ {s}

\* an edit that overwrites the buffer of every room
codeChangeEverywhere(s, code) ==
    /\ status[s] = "open"
    /\ LET roomId == LookupRoom(s)
       IN IF roomId # Undefined /\ roomId \in DOMAIN rooms
          THEN /\ rooms' = [q \in DOMAIN rooms |-> [rooms[q] EXCEPT !.code = code]]
               /\ out' = << Msg(CodeChangeTargets(s, roomId), "code-change", code) >>
          ELSE /\ out' = <<>>
               /\ UNCHANGED rooms
    /\ UNCHANGED <<status, socketToClientMap, socketToRoomMap, socketRooms>>

codeChange(s, code) ==
    /\ status[s] = "open"
    /\ LET roomId == LookupRoom(s)
       IN IF roomId # Undefined /\ roomId \in DOMAIN rooms
          THEN /\ rooms' = MapPut(rooms, roomId, [rooms[roomId] EXCEPT !.code = code])
               /\ out' = << Msg(CodeChangeTargets(s, roomId), "code-change", code) >>
          ELSE /\ out' = <<>>
               /\ UNCHANGED rooms
    /\ UNCHANGED <<status, socketToClientMap, socketToRoomMap, socketRooms>>

\* ---------------------------------------------- socket.on('chat-message')
\* { ...message, username: user.username, sender: socket.id,
\*   timestamp: message.timestamp || new Date().toISOString() }
MessageToSend(message, user, s) ==
    [message EXCEPT !.username = user.username,
                    !.sender = s,
                    !.timestamp = IF message.timestamp # Undefined
                                  THEN message.timestamp ELSE "now"]

\* a relay to every connected socket but the sender
ChatTargetsEveryone(s, roomId) == {c \in Conns : status[c] = "open"} \ {s}

\* socket.to(roomId) of the chat relay
ChatTargets(s, roomId) == Group(socketRooms, status, roomId) \ {s}

\* a relay that does not look for the sender's member record
chatMessageUnchecked(s, message) ==
    /\ status[s] = "open"
    /\ LET roomId == LookupRoom(s)
       IN IF roomId # Undefined /\ roomId \in DOMAIN rooms
          THEN out' = << Msg(ChatTargets(s, roomId), "chat-message",
                             [message EXCEPT !.sender = s, !.timestamp = "now"]) >>
          ELSE out' = <<>>
    /\ UNCHANGED <<status, rooms, socketToClientMap, socketToRoomMap, socketRooms>>

chatMessage(s, message) ==
    /\ status[s] = "open"
    /\ LET roomId == LookupRoom(s)
       IN IF roomId # Undefined /\ roomId \in DOMAIN rooms
             /\ UsersHas(rooms[roomId].users, s)
          THEN out' = << Msg(ChatTargets(s, roomId), "chat-message",
                             MessageToSend(message, UsersGet(rooms[roomId].users, s), s)) >>
          ELSE out' = <<>>
    /\ UNCHANGED <<status, rooms, socketToClientMap, socketToRoomMap, socketRooms>>

\* ------------------------------------------------ socket.on('disconnect')
\* indexOf
IndexOf(seq, x) ==
    IF \E i \in 1..Len(seq) : seq[i] = x
    THEN CHOOSE i \in 1..Len(seq) : seq[i] = x /\ \A j \in 1..(i - 1) : seq[j] # x
    ELSE 0
\* splice(index, 1)
Splice(seq, i) == [j \in 1..(Len(seq) - 1) |-> IF j < i THEN seq[j] ELSE seq[j + 1]]

\* the member list of the disconnect: duplicates dropped by exact name
DisconnectUserList(users) ==
    MapEntries(FilterFirst(users, [i \in 1..Len(users) |-> users[i].username]))

\* no clean-up of empty rooms
CleanUpRoomNever(rs, roomId) == rs

\* a clean-up that keeps an empty room whose buffer holds text
CleanUpRoomIfBlank(rs, roomId) ==
    IF Len(rs[roomId].users) = 0 /\ rs[roomId].code = ""
    THEN MapDelete(rs, roomId) ELSE rs

\* if (room.users.size === 0) rooms.delete(roomId)
CleanUpRoom(rs, roomId) ==
    IF Len(rs[roomId].users) = 0 THEN MapDelete(rs, roomId) ELSE rs

\* a lookup that falls back on the room whose records name the socket
DisconnectRoomByRecord(s) ==
    IF s \in DOMAIN socketToRoomMap THEN socketToRoomMap[s]
    ELSE IF \E r \in DOMAIN rooms : UsersHas(rooms[r].users, s)
         THEN CHOOSE r \in DOMAIN rooms : UsersHas(rooms[r].users, s)
         ELSE Undefined

\* const roomId = socketToRoomMap.get(socket.id)
DisconnectRoom(s) ==
    IF s \in DOMAIN socketToRoomMap THEN socketToRoomMap[s] ELSE Undefined

\* the body of the handler, for a socket that socket.io has already taken
\* out of its broadcast groups
disconnectHandler(s) ==
    /\ LET roomId == DisconnectRoom(s)
       IN IF roomId # Undefined /\ roomId \in DOMAIN rooms
          THEN LET room == rooms[roomId]
                   hit == {i \in 1..Len(room.users) : IndexOf(room.users[i].sockets, s) # 0}
                   spliced == [i \in 1..Len(room.users) |->
                                 IF i \in hit
                                 THEN [room.users[i] EXCEPT
                                         !.sockets = Splice(@, IndexOf(@, s))]
                                 ELSE room.users[i]]
               IN IF hit = {}
                  THEN /\ out' = <<>>
                       /\ UNCHANGED rooms
                  ELSE LET last == CHOOSE i \in hit : \A j \in hit : j <= i
                           userToRemove == spliced[last]
                           removeCompletely == \E i \in hit : Len(spliced[i].sockets) = 0
                           users1 == IF removeCompletely
                                     THEN UsersDelete(spliced, userToRemove.id)
                                     ELSE spliced
                           group == Group(socketRooms', status', roomId)
                           room1 == [room EXCEPT !.users = users1]
                       IN /\ out' = (IF removeCompletely
                                     THEN << Msg(group, "userLeft", userToRemove.username) >>
                                     ELSE <<>>)
                                    \o << Msg(group, "userList", DisconnectUserList(users1)) >>
                          /\ rooms' = CleanUpRoom(MapPut(rooms, roomId, room1), roomId)
          ELSE /\ out' = <<>>
               /\ UNCHANGED rooms
    /\ socketToClientMap' = MapDelete(socketToClientMap, s)
    /\ socketToRoomMap' = MapDelete(socketToRoomMap, s)

disconnect(s) ==
    /\ status[s] = "open"
    /\ status' = [status EXCEPT ![s] = "closed"]
    \* socket.io empties socket.rooms before it fires 'disconnect'
    /\ socketRooms' = [socketRooms EXCEPT ![s] = <<>>]
    /\ disconnectHandler(s)

\* ------------------------------------------- socket.on('requestUserList')
\* the member list of the requestUserList of server-helper.js: duplicates
\* dropped by exact name
HelperUserList(users) ==
    MapEntries(FilterFirst(users, [i \in 1..Len(users) |-> users[i].username]))

\* a refresh that also registers the requester to the room it asks about
requestUserListRegistering(s, roomId) ==
    /\ status[s] = "open"
    /\ out' = IF roomId # Undefined /\ roomId \in DOMAIN rooms
              THEN LET userList == PlainUserList(rooms[roomId].users)
                   IN << Msg({s}, "userList", userList),
                         Msg(Group(socketRooms, status, roomId), "userList", userList) >>
              ELSE << Msg({s}, "userList", <<>>) >>
    /\ socketToRoomMap' = MapPut(socketToRoomMap, s, roomId)
    /\ UNCHANGED <<status, rooms, socketToClientMap, socketRooms>>

\* a refresh that creates the room it is asked about when it is missing
requestUserListCreating(s, roomId) ==
    /\ status[s] = "open"
    /\ out' = IF roomId # Undefined /\ roomId \in DOMAIN rooms
              THEN LET userList == PlainUserList(rooms[roomId].users)
                   IN << Msg({s}, "userList", userList),
                         Msg(Group(socketRooms, status, roomId), "userList", userList) >>
              ELSE << Msg({s}, "userList", <<>>) >>
    /\ rooms' = IF roomId \in DOMAIN rooms THEN rooms ELSE MapPut(rooms, roomId, NewRoom)
    /\ UNCHANGED <<status, socketToClientMap, socketToRoomMap, socketRooms>>

requestUserList(s, roomId) ==
    /\ status[s] = "open"
    /\ out' = IF roomId # Undefined /\ roomId \in DOMAIN rooms
              THEN LET userList == PlainUserList(rooms[roomId].users)
                   IN << Msg({s}, "userList", userList),
                         Msg(Group(socketRooms, status, roomId), "userList", userList) >>
              ELSE << Msg({s}, "userList", <<>>) >>
    /\ UNCHANGED <<status, rooms, socketToClientMap, socketToRoomMap, socketRooms>>

\* --------------------------------------------------------- the service
\* the chat payloads a client may send: any sender, any username
ChatPayloads ==
    [text : {"hi"}, sender : {1, NumConns}, username : {"alice", "bob"},
     timestamp : {Undefined}]

\* one more event handled, up to the bound of the exploration
Tick == events < MaxEvents /\ events' = events + 1

\* socket ids are fresh: the next socket to attach takes the next unused id
NextSocket(s) == \A c \in Conns : c < s => status[c] # "idle"

Connection ==
    /\ Tick
    /\ \E s \in Conns, c \in ClientIds, r \in RoomIds \cup {Undefined} :
          NextSocket(s) /\ connection(s, c, r)
    /\ UNCHANGED clientVars
JoinRoom ==
    /\ Tick
    /\ \E s \in Conns, u \in Names, r \in RoomIds : joinRoom(s, u, r)
    /\ UNCHANGED clientVars
PeerId ==
    /\ Tick
    /\ \E s \in Conns, id \in PeerIds : peerId(s, id)
    /\ UNCHANGED clientVars
CodeChange ==
    /\ Tick
    /\ \E s \in Conns, code \in Texts : codeChange(s, code)
    /\ UNCHANGED clientVars
ChatMessage ==
    /\ Tick
    /\ \E s \in Conns, m \in ChatPayloads : chatMessage(s, m)
    /\ UNCHANGED clientVars
Disconnect ==
    /\ Tick
    /\ \E s \in Conns : disconnect(s)
    /\ UNCHANGED clientVars
RequestUserList ==
    /\ Tick
    /\ \E s \in Conns, r \in RoomIds : requestUserList(s, r)
    /\ UNCHANGED clientVars

Next ==
    \/ Connection
    \/ JoinRoom
    \/ PeerId
    \/ CodeChange
    \/ ChatMessage
    \/ Disconnect
    \/ RequestUserList

Spec == Init /\ [][Next]_vars

\* ------------------------------- the service with a repeated disconnect
\* the handler of 'disconnect' run once more for a socket that has closed
DisconnectAgain ==
    /\ Tick
    /\ \E s \in Conns :
          /\ status[s] = "closed"
          /\ UNCHANGED <<status, socketRooms>>
          /\ disconnectHandler(s)
    /\ UNCHANGED clientVars

NextAgain ==
    \/ Next
    \/ DisconnectAgain

SpecAgain == Init /\ [][NextAgain]_vars

\* ------------------------------------------- the service with its Editors
\* The Editor behind a socket attaches with its room in the query, emits one
\* joinRoom, then sends its edits (handleCodeChange) and applies the
\* code-change events it receives.  Events of one socket travel in order.
Editors == Conns \ {NumConns}
Observers == {NumConns}
Typed == {"x", "y"}
SyncRooms == {"r1"}
SyncNames == {"alice", "bob", "carol"}

\* the code-change payloads of the emissions `o` addressed to socket c, in order
CodeFor(o, c) ==
    LET F[n \in 0..Len(o)] ==
            IF n = 0 THEN <<>>
            ELSE IF o[n].ev = "code-change" /\ c \in o[n].to
                 THEN Append(F[n - 1], o[n].data) ELSE F[n - 1]
    IN F[Len(o)]
\* the inboxes after the emissions `o` have been sent
Post(ib, o) == [c \in Conns |-> ib[c] \o CodeFor(o, c)]
Fits(ib) == \A c \in Conns : Len(ib[c]) <= MaxQueue

\* const newSocket = io(SERVER_URL, { query: { roomId, username, clientId } })
EditorConnect ==
    /\ \E s \in Conns, c \in ClientIds, r \in SyncRooms :
          NextSocket(s) /\ connection(s, c, r)
    /\ UNCHANGED <<clientVars, events>>

\* newSocket.emit('joinRoom', { username, roomId, clientId }), handled by the service
EditorJoin ==
    \E s \in Conns, u \in SyncNames :
        /\ ~joinSent[s]
        /\ s \in DOMAIN socketToRoomMap
        /\ joinRoom(s, u, socketToRoomMap[s])
        /\ joinSent' = [joinSent EXCEPT ![s] = TRUE]
        /\ inbox' = Post(inbox, out')
        /\ Fits(inbox')
        /\ UNCHANGED <<clientCode, uplink, events, edits, tabs, presence>>

\* handleCodeChange: setCode(value); socketRef.current.emit('code-change', value)
EditorType ==
    \E s \in Editors, v \in Typed :
        /\ status[s] = "open"
        /\ joinSent[s]
        /\ Len(uplink[s]) < MaxQueue
        /\ edits[s] < MaxEdits
        /\ edits' = [edits EXCEPT ![s] = @ + 1]
        /\ clientCode' = [clientCode EXCEPT ![s] = v]
        /\ uplink' = [uplink EXCEPT ![s] = Append(@, v)]
        /\ UNCHANGED <<serverVars, inbox, events, joinSent, tabs, presence>>

\* the service handles the oldest edit a socket has sent
ServeEdit(s) ==
    /\ Len(uplink[s]) > 0
    /\ codeChange(s, Head(uplink[s]))
    /\ uplink' = [uplink EXCEPT ![s] = Tail(@)]
    /\ inbox' = Post(inbox, out')
    /\ Fits(inbox')
    /\ UNCHANGED <<clientCode, events, joinSent, edits, tabs, presence>>
EditorServed == \E s \in Conns : ServeEdit(s)

\* newSocket.on('code-change', (newCode) => setCode(newCode))
ReceiveCode(ib, s) == Head(ib[s])
EditorReceive ==
    \E s \in Conns :
        /\ status[s] = "open"
        /\ Len(inbox[s]) > 0
        /\ clientCode' = [clientCode EXCEPT ![s] = ReceiveCode(inbox, s)]
        /\ inbox' = [inbox EXCEPT ![s] = Tail(@)]
        /\ UNCHANGED <<serverVars, uplink, events, joinSent, edits, tabs, presence>>

\* socketRef.current.disconnect(): what is still in flight is lost
EditorClose ==
    \E s \in Conns :
        /\ disconnect(s)
        /\ uplink' = [uplink EXCEPT ![s] = <<>>]
        /\ inbox' = [inbox EXCEPT ![s] = <<>>]
        /\ UNCHANGED <<clientCode, events, joinSent, edits, tabs, presence>>

NextSync ==
    \/ EditorConnect
    \/ EditorJoin
    \/ EditorType
    \/ EditorServed
    \/ EditorReceive
    \/ EditorClose

SpecSync == Init /\ [][NextSync]_vars

\* --------------------------------------- the service with its Home pages
\* A browser tab shows Home (the form) or the Editor.  Submitting the form
\* asks GET /check-username; an available name navigates to the Editor, whose
\* effect opens a socket and emits joinRoom once.
FormNames == Names \cup {""}
FormRooms == RoomIds

\* the name check with the names compared as written
checkUsernameExact(username, roomId) ==
    IF username = "" \/ roomId = "" THEN "400"
    ELSE IF roomId \notin DOMAIN rooms THEN "available"
    ELSE IF username \in {rooms[roomId].users[i].username :
                              i \in 1..Len(rooms[roomId].users)}
         THEN "taken" ELSE "available"

\* app.get('/check-username'): 400 without username or roomId, otherwise
\* { available } from the lower-cased names of the room
checkUsername(username, roomId) ==
    IF username = "" \/ roomId = "" THEN "400"
    ELSE IF roomId \notin DOMAIN rooms THEN "available"
    ELSE IF toLowerCase(username)
              \in {toLowerCase(rooms[roomId].users[i].username) :
                      i \in 1..Len(rooms[roomId].users)}
         THEN "taken" ELSE "available"

\* Home.joinRoom up to the request: nothing happens on an empty field,
\* otherwise setIsLoading(true), setError('') and the GET is sent
HomeSubmit ==
    \E t \in Tabs, u \in FormNames, r \in FormRooms :
        /\ tabs[t].page = "home"
        /\ tabs' = [tabs EXCEPT ![t] =
                      IF u = "" \/ r = ""
                      THEN [@ EXCEPT !.username = u, !.roomId = r]
                      ELSE [@ EXCEPT !.username = u, !.roomId = r,
                                     !.page = "checking", !.error = "",
                                     !.isLoading = TRUE, !.response = "none"]]
        /\ UNCHANGED <<serverVars, clientCode, uplink, inbox, events, joinSent, edits, presence>>

\* the service answers the GET and Home acts on the answer:
\* navigate to the Editor, or setError; finally setIsLoading(false)
Answered(t, answer) ==
    IF answer = "available"
    THEN [tabs[t] EXCEPT !.page = "editor", !.phase = "connecting",
                         !.isLoading = FALSE, !.response = answer]
    ELSE [tabs[t] EXCEPT !.page = "home", !.error = "taken",
                         !.isLoading = FALSE, !.response = answer]
CheckUsername ==
    \E t \in Tabs :
        /\ tabs[t].page = "checking"
        /\ tabs' = [tabs EXCEPT ![t] =
                      Answered(t, checkUsername(tabs[t].username, tabs[t].roomId))]
        /\ UNCHANGED <<serverVars, clientCode, uplink, inbox, events, joinSent, edits, presence>>

\* what a failed request shows Home: the status of an error response, or no
\* response at all
Failures == {"404", "500", "network"}

\* a catch that opens the Editor whatever the failure
FailedProceeds(t, failure) ==
    [tabs[t] EXCEPT !.page = "editor", !.phase = "connecting",
                    !.isLoading = FALSE, !.response = failure]

\* the catch of Home.joinRoom: a 404 navigates to the Editor all the same,
\* any other failure does setError('Failed to check username availability...');
\* finally setIsLoading(false)
Failed(t, failure) ==
    IF failure = "404"
    THEN [tabs[t] EXCEPT !.page = "editor", !.phase = "connecting",
                         !.isLoading = FALSE, !.response = failure]
    ELSE [tabs[t] EXCEPT !.page = "home", !.error = "failed",
                         !.isLoading = FALSE, !.response = failure]
\* the request fails
CheckFails ==
    \E t \in Tabs, failure \in Failures :
        /\ tabs[t].page = "checking"
        /\ tabs' = [tabs EXCEPT ![t] = Failed(t, failure)]
        /\ UNCHANGED <<serverVars, clientCode, uplink, inbox, events, joinSent, edits, presence>>

\* the Editor effect: io(SERVER_URL, { query: { roomId, username, clientId } })
TabConnect ==
    \E t \in Tabs, s \in Conns, c \in ClientIds :
        /\ tabs[t].phase = "connecting"
        /\ NextSocket(s)
        /\ connection(s, c, tabs[t].roomId)
        /\ tabs' = [tabs EXCEPT ![t] = [@ EXCEPT !.sock = s, !.phase = "attached"]]
        /\ UNCHANGED <<clientCode, uplink, inbox, events, joinSent, edits, presence>>

\* newSocket.emit('joinRoom', { username, roomId, clientId }), handled by the service
TabJoin ==
    \E t \in Tabs :
        /\ tabs[t].phase = "attached"
        /\ joinRoom(tabs[t].sock, tabs[t].username, tabs[t].roomId)
        /\ joinSent' = [joinSent EXCEPT ![tabs[t].sock] = TRUE]
        /\ tabs' = [tabs EXCEPT ![t] =
                      [@ EXCEPT !.phase = IF out'[1].ev = "joinRejected"
                                          THEN "rejected" ELSE "joined"]]
        /\ UNCHANGED <<clientCode, uplink, inbox, events, edits, presence>>

\* a handler of joinRejected that sends the join again
RejectedRetries(t) == [tabs[t] EXCEPT !.phase = "attached"]
\* newSocket.on('joinRejected'): the system message, then setTimeout(..., 2000)
Rejected(t) == [tabs[t] EXCEPT !.phase = "timer"]
TabRejected ==
    \E t \in Tabs :
        /\ tabs[t].phase = "rejected"
        /\ tabs' = [tabs EXCEPT ![t] = Rejected(t)]
        /\ UNCHANGED <<serverVars, clientCode, uplink, inbox, events, joinSent, edits, presence>>

\* Home as it is shown after navigate('/', { state: { error, previousUsername,
\* previousRoomId } }): the effect on location.state restores the three
BackHome(t) ==
    [NewTab EXCEPT !.error = "rejected",
                   !.username = tabs[t].username, !.roomId = tabs[t].roomId]
\* the timer fires: navigate('/'), the Editor unmounts and its clean-up
\* disconnects the socket
TabTimer ==
    \E t \in Tabs :
        /\ tabs[t].phase = "timer"
        /\ disconnect(tabs[t].sock)
        /\ tabs' = [tabs EXCEPT ![t] = BackHome(t)]
        /\ UNCHANGED <<clientCode, uplink, inbox, events, joinSent, edits, presence>>

\* the user leaves the Editor: the clean-up disconnects the socket and Home
\* is shown afresh
TabLeave ==
    \E t \in Tabs :
        /\ tabs[t].phase = "joined"
        /\ disconnect(tabs[t].sock)
        /\ tabs' = [tabs EXCEPT ![t] = NewTab]
        /\ UNCHANGED <<clientCode, uplink, inbox, events, joinSent, edits, presence>>

NextHome ==
    \/ HomeSubmit
    \/ CheckUsername
    \/ CheckFails
    \/ TabConnect
    \/ TabJoin
    \/ TabRejected
    \/ TabTimer
    \/ TabLeave

SpecHome == Init /\ [][NextHome]_vars

\* ------------------------------ the service with its Editors' member lists
\* The Editor behind a socket, once mounted, has opened a socket with its room
\* in the query, emitted one joinRoom (sent when the socket connects), created
\* a Peer and set the interval that asks for the member list.  It shows the
\* list of the userList event it received last.
PresenceRoom == "r1"
PresenceNames == {"alice", "bob"}
\* the sockets whose Editors are rendered in a run
Presences == Conns \ {NumConns}

\* the userList payloads of the emissions `o` addressed to socket c, in order
ListsFor(o, c) ==
    LET F[n \in 0..Len(o)] ==
            IF n = 0 THEN <<>>
            ELSE IF o[n].ev = "userList" /\ c \in o[n].to
                 THEN Append(F[n - 1], o[n].data) ELSE F[n - 1]
    IN F[Len(o)]
\* the Editors after the emissions `o` have been sent
PostLists(pr, o) == [c \in Conns |-> [pr[c] EXCEPT !.lists = @ \o ListsFor(o, c)]]
FitsLists(pr) == \A c \in Conns : Len(pr[c].lists) <= MaxQueue

\* the Editor is rendered: its effects run
EditorMount ==
    \E c \in Presences :
        /\ presence[c].mounted = "no"
        /\ \A b \in Conns : b < c => presence[b].mounted # "no"
        /\ presence' = [presence EXCEPT ![c] = [@ EXCEPT !.mounted = "yes",
                                                         !.peer = "opening"]]
        /\ UNCHANGED <<serverVars, clientCode, uplink, inbox, events, joinSent, edits, tabs>>

\* the socket of a mounted Editor connects
PresenceConnect ==
    \E s \in Conns, c \in ClientIds :
        /\ presence[s].mounted = "yes"
        /\ NextSocket(s)
        /\ connection(s, c, PresenceRoom)
        /\ UNCHANGED <<clientCode, uplink, inbox, events, joinSent, edits, tabs, presence>>

\* the joinRoom of the Editor is handled by the service
PresenceJoin ==
    \E s \in Conns, u \in PresenceNames :
        /\ presence[s].mounted = "yes"
        /\ ~joinSent[s]
        /\ joinRoom(s, u, PresenceRoom)
        /\ joinSent' = [joinSent EXCEPT ![s] = TRUE]
        /\ presence' = PostLists(presence, out')
        /\ FitsLists(presence')
        /\ UNCHANGED <<clientCode, uplink, inbox, events, edits, tabs>>

\* peer.on('open'): if (newSocket.connected) newSocket.emit('peer-id', { peerId: id })
PeerOpened(c) ==
    [presence[c] EXCEPT !.peer = "open", !.announce = (status[c] = "open")]
PeerOpen ==
    \E c \in Conns :
        /\ presence[c].mounted = "yes"
        /\ presence[c].peer = "opening"
        /\ presence' = [presence EXCEPT ![c] = PeerOpened(c)]
        /\ UNCHANGED <<serverVars, clientCode, uplink, inbox, events, joinSent, edits, tabs>>

\* the peer-id of the Editor is handled by the service, after its joinRoom
PeerAnnounce ==
    \E s \in Conns, id \in PeerIds :
        /\ presence[s].announce
        /\ joinSent[s]
        /\ peerId(s, id)
        /\ presence' = PostLists([presence EXCEPT ![s] = [@ EXCEPT !.announce = FALSE]], out')
        /\ FitsLists(presence')
        /\ UNCHANGED <<clientCode, uplink, inbox, events, joinSent, edits, tabs>>

\* an interval that is cleared as soon as it is set
RefreshDueNever(s) == FALSE
\* the callback of the interval: if (socketRef.current && socketRef.current.connected)
RefreshDue(s) == presence[s].mounted = "yes" /\ status[s] = "open"
\* the Editor asks for the member list of its room and the service answers
PresenceRefresh(s) ==
    /\ RefreshDue(s)
    /\ requestUserList(s, PresenceRoom)
    /\ presence' = PostLists(presence, out')
    /\ FitsLists(presence')
    /\ UNCHANGED <<clientCode, uplink, inbox, events, joinSent, edits, tabs>>
PresenceRefreshes == \E s \in Conns : PresenceRefresh(s)

\* newSocket.on('userList', (users) => setConnectedUsers(users))
PresenceReceive(c) ==
    /\ status[c] = "open"
    /\ Len(presence[c].lists) > 0
    /\ presence' = [presence EXCEPT ![c] =
                      [@ EXCEPT !.connectedUsers = Head(presence[c].lists),
                                !.lists = Tail(presence[c].lists)]]
    /\ UNCHANGED <<serverVars, clientCode, uplink, inbox, events, joinSent, edits, tabs>>
PresenceReceives == \E c \in Conns : PresenceReceive(c)

\* a userList event does not reach its Editor
MissedSoFar(pr) ==
    LET F[n \in 0..NumConns] == IF n = 0 THEN 0 ELSE F[n - 1] + pr[n].missed
    IN F[NumConns]
PresenceMiss ==
    \E c \in Conns :
        /\ status[c] = "open"
        /\ Len(presence[c].lists) > 0
        /\ MissedSoFar(presence) < MaxMissed
        /\ presence' = [presence EXCEPT ![c] =
                          [@ EXCEPT !.lists = Tail(presence[c].lists),
                                    !.missed = @ + 1]]
        /\ UNCHANGED <<serverVars, clientCode, uplink, inbox, events, joinSent, edits, tabs>>

\* the Editor unmounts: clearInterval, socket.disconnect(), peer.destroy()
PresenceLeave ==
    \E s \in Conns :
        /\ presence[s].mounted = "yes"
        /\ disconnect(s)
        /\ presence' = PostLists([presence EXCEPT ![s] =
                                    [@ EXCEPT !.mounted = "gone", !.lists = <<>>,
                                              !.peer = "none", !.announce = FALSE]], out')
        /\ FitsLists(presence')
        /\ UNCHANGED <<clientCode, uplink, inbox, events, joinSent, edits, tabs>>

NextPresence ==
    \/ EditorMount
    \/ PresenceConnect
    \/ PresenceJoin
    \/ PeerOpen
    \/ PeerAnnounce
    \/ PresenceRefreshes
    \/ PresenceReceives
    \/ PresenceMiss
    \/ PresenceLeave

\* the interval fires again and again, and events on their way are delivered
PresenceFairness ==
    /\ \A s \in Conns : SF_vars(PresenceRefresh(s))
    /\ \A c \in Conns : WF_vars(PresenceReceive(c))

SpecPresence == Init /\ [][NextPresence]_vars /\ PresenceFairness

\* ================================================================ claims
\* the join of s under username to roomId is one the handler refuses
Refused(s, username, roomId) ==
    /\ status[s] = "open"
    /\ roomId \in DOMAIN rooms
    /\ usernameTaken(rooms[roomId].users, username, s)
\* the join of s under username to roomId is one the handler admits
Admitted(s, username, roomId) ==
    /\ status[s] = "open"
    /\ ~(roomId \in DOMAIN rooms /\ usernameTaken(rooms[roomId].users, username, s))

IsRejection(o) == Len(o) = 1 /\ o[1].ev = "joinRejected"
IsJoin(o) == Len(o) = 4 /\ o[4].ev = "joinedRoom"

\* C1: no room holds two member records whose names are equal ignoring case.
C1_NameUnique ==
    \A r \in DOMAIN rooms :
        \A i, j \in 1..Len(rooms[r].users) :
            i # j => toLowerCase(rooms[r].users[i].username)
                       # toLowerCase(rooms[r].users[j].username)
\* a room with two members in which a join under a held name has just been refused
C1_Witness ==
    /\ IsRejection(out)
    /\ \E r \in DOMAIN rooms :
          /\ Len(rooms[r].users) >= 2
          /\ \E i \in 1..Len(rooms[r].users) :
                toLowerCase(rooms[r].users[i].username) = toLowerCase(out[1].data.username)

\* C2: every room of the store has at least one member record.
C2_RoomNonEmpty == \A r \in DOMAIN rooms : Len(rooms[r].users) >= 1
\* the last member of the only room has just left and the room is gone
C2_Witness ==
    /\ Len(out) = 2 /\ out[1].ev = "userLeft"
    /\ out[2].ev = "userList" /\ Len(out[2].data) = 0
    /\ DOMAIN rooms = {}

\* C3: a refused join changes no room, no registry entry and none of the
\* requesting socket's broadcast-group subscriptions.
C3_RejectionMutatesNothing ==
    [][\A s \in Conns, u \in Names, r \in RoomIds :
          (Refused(s, u, r) /\ joinRoom(s, u, r))
              => UNCHANGED <<rooms, socketToRoomMap, socketToClientMap, socketRooms>>]_vars

\* C4: a refused join emits the join-rejected notice, to the requesting
\* socket only, and nothing else.
C4_RejectionOnlyToRequester ==
    [][\A s \in Conns, u \in Names, r \in RoomIds :
          (Refused(s, u, r) /\ joinRoom(s, u, r))
              => /\ Len(out') = 1
                 /\ out'[1].ev = "joinRejected"
                 /\ out'[1].to = {s}
                 /\ out'[1].data.username = u]_vars
\* a join has just been refused while the room has a member other than the requester
C4_Witness ==
    /\ IsRejection(out)
    /\ \E s \in out[1].to, r \in DOMAIN rooms :
          \E i \in 1..Len(rooms[r].users) :
              /\ rooms[r].users[i].id # s
              /\ toLowerCase(rooms[r].users[i].username) = toLowerCase(out[1].data.username)

\* C5: a join for a room key that does not exist is admitted whatever the
\* name, and leaves the room with an empty buffer and the joiner as its only
\* member record.
C5_FirstJoinCreatesRoom ==
    [][\A s \in Conns, u \in Names, r \in RoomIds :
          (status[s] = "open" /\ r \notin DOMAIN rooms /\ joinRoom(s, u, r))
              => /\ r \in DOMAIN rooms'
                 /\ rooms'[r].code = ""
                 /\ Len(rooms'[r].users) = 1
                 /\ rooms'[r].users[1].id = s
                 /\ rooms'[r].users[1].username = u
                 /\ IsJoin(out')
                 /\ out'[4].to = {s}
                 /\ out'[4].data.userCount = 1]_vars
\* a room that was deleted with text in its buffer has been created again
C5_Witness ==
    /\ IsJoin(out)
    /\ out[4].data.userCount = 1
    /\ \E c \in Conns : status[c] = "closed"
    /\ \E r \in DOMAIN rooms :
          /\ r = out[4].data.roomId
          /\ Len(rooms[r].users) = 1
          /\ rooms[r].code = ""

\* the sockets that are connected, registered to room r and hold a member record of r
MemberConns(st, rs, reg, r) ==
    {c \in Conns : /\ st[c] = "open"
                   /\ c \in DOMAIN reg /\ reg[c] = r
                   /\ r \in DOMAIN rs /\ UsersHas(rs[r].users, c)}
\* the sockets that hold a member record of room r
RecordHolders(rs, r) ==
    {c \in Conns : r \in DOMAIN rs /\ UsersHas(rs[r].users, c)}

\* C6: an admitted join sends the room's buffer as it is at that moment to the
\* joiner and to no other socket, and a buffer differs from what it was only by
\* the payload of an edit applied to it.
C6_CatchUpToJoinerOnly ==
    [][/\ \A s \in Conns, u \in Names, r \in RoomIds :
             (Admitted(s, u, r) /\ joinRoom(s, u, r))
                 => LET buffer == IF r \in DOMAIN rooms THEN rooms[r].code ELSE ""
                    IN /\ IsJoin(out')
                       /\ out'[1].ev = "code-change"
                       /\ out'[1].to = {s}
                       /\ out'[1].data = buffer
                       /\ rooms'[r].code = buffer
                       /\ \A i \in 2..Len(out') : out'[i].ev # "code-change"
       /\ \A r \in DOMAIN rooms \cap DOMAIN rooms' :
             rooms'[r].code # rooms[r].code
                 => \E s \in Conns, code \in Codes :
                        codeChange(s, code) /\ rooms'[r].code = code]_vars
\* a second member has just joined a room whose buffer holds an edit
C6_Witness ==
    /\ IsJoin(out)
    /\ out[1].ev = "code-change" /\ out[1].data = "x"
    /\ out[4].data.userCount = 2
    /\ Cardinality(out[2].to) = 2

\* C7: an admitted join sends the member list to every connection of the room,
\* joiner included, the member-joined notice to every connection of the room
\* but the joiner, and the joined confirmation with the member count to the joiner.
C7_JoinAnnounced ==
    [][\A s \in Conns, u \in Names, r \in RoomIds :
          (Admitted(s, u, r) /\ joinRoom(s, u, r))
              => LET members == MemberConns(status', rooms', socketToRoomMap', r)
                 IN /\ IsJoin(out')
                    /\ out'[2].ev = "userList"
                    /\ members \subseteq out'[2].to
                    /\ s \in out'[2].to
                    /\ \E i \in 1..Len(out'[2].data) : out'[2].data[i].id = s
                    /\ out'[3].ev = "userJoined"
                    /\ out'[3].data = u
                    /\ (members \ {s}) \subseteq out'[3].to
                    /\ s \notin out'[3].to
                    /\ out'[4].to = {s}
                    /\ out'[4].data.userCount = Len(rooms'[r].users)]_vars

\* C8: an edit from a member of room r overwrites the buffer of r and is
\* forwarded to every other member connection of r, to no socket outside r and
\* not to the sender.
C8_EditForwarded ==
    [][\A s \in Conns, code \in Codes, r \in RoomIds :
          (s \in MemberConns(status, rooms, socketToRoomMap, r) /\ codeChange(s, code))
              => /\ rooms'[r].code = code
                 /\ Len(out') = 1
                 /\ out'[1].ev = "code-change"
                 /\ out'[1].data = code
                 /\ (MemberConns(status, rooms, socketToRoomMap, r) \ {s}) \subseteq out'[1].to
                 /\ out'[1].to \subseteq RecordHolders(rooms, r)
                 /\ s \notin out'[1].to]_vars

\* C9: the buffer of a room is the payload of the edit the service applied
\* last, and a connection of the room that sent no edit shows that buffer once
\* everything forwarded to it has been delivered.
C9_Settled ==
    \A c \in Observers, r \in RoomIds :
        (/\ status[c] = "open"
         /\ \E i \in 1..Len(socketRooms[c]) : socketRooms[c][i] = r
         /\ Len(inbox[c]) = 0)
            => r \in DOMAIN rooms /\ clientCode[c] = rooms[r].code
C9_LastWriterWins ==
    /\ []C9_Settled
    /\ [][\A s \in Conns :
             (Len(uplink[s]) > 0 /\ ServeEdit(s) /\ LookupRoom(s) \in DOMAIN rooms)
                 => rooms'[LookupRoom(s)].code = Head(uplink[s])]_vars
\* two editors' edits have crossed: "x" was applied, then "y"; the observer has
\* received both and shows "y", each editor still shows its own text
C9_Witness ==
    /\ NumConns >= 3
    /\ "r1" \in DOMAIN rooms /\ rooms["r1"].code = "y"
    /\ \A c \in Conns : Len(uplink[c]) = 0
    /\ clientCode[1] = "x" /\ inbox[1] = <<"y">>
    /\ clientCode[2] = "y" /\ inbox[2] = <<"x">>
    /\ status[NumConns] = "open"
    /\ socketRooms[NumConns] = <<"r1">>
    /\ Len(inbox[NumConns]) = 0
    /\ clientCode[NumConns] = "y"

\* C10: a chat message from a member of room r is forwarded to every other
\* connection of r and not to the sender, stamped with the sender's socket id
\* and the name of its member record; rooms are left as they are.
C10_ChatForwarded ==
    [][\A s \in Conns, m \in ChatPayloads, r \in RoomIds :
          (s \in MemberConns(status, rooms, socketToRoomMap, r) /\ chatMessage(s, m))
              => /\ Len(out') = 1
                 /\ out'[1].ev = "chat-message"
                 /\ (MemberConns(status, rooms, socketToRoomMap, r) \ {s}) \subseteq out'[1].to
                 /\ s \notin out'[1].to
                 /\ out'[1].data.sender = s
                 /\ out'[1].data.username = UsersGet(rooms[r].users, s).username
                 /\ out'[1].data.text = m.text
                 /\ UNCHANGED rooms]_vars

\* C11: a signaling id announced by a member connection of room r is stored in
\* that connection's own member record and in no other record, and the member
\* list of r, showing the id, is sent to every member connection of r, the
\* announcer included.
C11_SignalingAnnounced ==
    [][\A s \in Conns, id \in PeerIds, r \in RoomIds :
          (s \in MemberConns(status, rooms, socketToRoomMap, r) /\ peerId(s, id))
              => /\ DOMAIN rooms' = DOMAIN rooms
                 /\ UsersGet(rooms'[r].users, s).peerId = id
                 /\ \A q \in DOMAIN rooms :
                       /\ Len(rooms'[q].users) = Len(rooms[q].users)
                       /\ \A i \in 1..Len(rooms[q].users) :
                             (q # r \/ rooms[q].users[i].id # s)
                                 => rooms'[q].users[i] = rooms[q].users[i]
                 /\ Len(out') = 1
                 /\ out'[1].ev = "userList"
                 /\ out'[1].data = MapEntries(rooms'[r].users)
                 /\ MemberConns(status, rooms, socketToRoomMap, r) \subseteq out'[1].to]_vars

\* C12: when a member connection of room r closes, its member record is
\* deleted and every remaining member connection of r is sent first the
\* member-left notice with the departed name, then a member list without the
\* departed member.
C12_DepartureAnnounced ==
    [][\A s \in Conns, r \in RoomIds :
          (s \in MemberConns(status, rooms, socketToRoomMap, r) /\ disconnect(s))
              => LET name == UsersGet(rooms[r].users, s).username
                     remaining == MemberConns(status', rooms', socketToRoomMap', r)
                 IN /\ ~(r \in DOMAIN rooms' /\ UsersHas(rooms'[r].users, s))
                    /\ Len(out') = 2
                    /\ out'[1].ev = "userLeft"
                    /\ out'[1].data = name
                    /\ out'[2].ev = "userList"
                    /\ \A i \in 1..Len(out'[2].data) : out'[2].data[i].id # s
                    /\ remaining \subseteq out'[1].to
                    /\ remaining \subseteq out'[2].to]_vars

\* C13: a disconnect leaves no room without member records in the store, and
\* a join for a room key that holds no room sends the joiner an empty buffer
\* and starts the room with an empty buffer.
C13_EmptyRoomForgotten ==
    [][/\ \A s \in Conns :
             disconnect(s) => \A r \in DOMAIN rooms' : Len(rooms'[r].users) > 0
       /\ \A s \in Conns, u \in Names \cup SyncNames, r \in RoomIds :
             (/\ status[s] = "open"
              /\ (r \notin DOMAIN rooms \/ Len(rooms[r].users) = 0)
              /\ joinRoom(s, u, r))
                 => /\ out'[1].ev = "code-change"
                    /\ out'[1].to = {s}
                    /\ out'[1].data = ""
                    /\ rooms'[r].code = ""]_vars
\* socket 2, which typed nothing, shows the "x" it was sent as the buffer of
\* r1 when it joined; sockets 1 and 2 have closed, and socket 3, the only
\* member of the new r1, has an empty buffer on its way
C13_Witness ==
    /\ status[1] = "closed" /\ status[2] = "closed" /\ status[3] = "open"
    /\ edits[2] = 0 /\ clientCode[2] = "x"
    /\ "r1" \in DOMAIN rooms
    /\ rooms["r1"].code = ""
    /\ Len(rooms["r1"].users) = 1
    /\ rooms["r1"].users[1].id = 3
    /\ inbox[3] = <<"">>

\* what the handler of 'disconnect' can emit
DisconnectShaped(o) ==
    \/ Len(o) = 0
    \/ Len(o) = 1 /\ o[1].ev = "userList"
    \/ Len(o) = 2 /\ o[1].ev = "userLeft" /\ o[2].ev = "userList"

\* C14: the disconnect handling run for a socket that has already closed, or
\* for a socket without a registry entry, changes no room, no member record
\* and no registry entry and emits nothing.
C14_CleanupIdempotent ==
    [][\A s \in Conns :
          (/\ status[s] = "closed" \/ s \notin DOMAIN socketToRoomMap
           /\ DisconnectShaped(out')
           /\ status' = status \/ disconnect(s)
           /\ disconnectHandler(s))
              => /\ UNCHANGED <<rooms, socketToRoomMap>>
                 /\ out' = <<>>]_vars
\* socket 1 has closed leaving a member record behind, no other socket has
\* attached, and the handler has run for it once more
C14_Witness ==
    /\ status[1] = "closed"
    /\ \A c \in Conns \ {1} : status[c] = "idle"
    /\ \E r \in DOMAIN rooms : UsersHas(rooms[r].users, 1)
    /\ events >= 5
    /\ out = <<>>

\* C15: the registry maps socket s to room r exactly when s holds a member
\* record in r.
C15_RegistryAgrees ==
    \A s \in Conns, r \in RoomIds :
        (s \in DOMAIN socketToRoomMap /\ socketToRoomMap[s] = r)
            <=> (r \in DOMAIN rooms /\ UsersHas(rooms[r].users, s))

\* C16: every member record holds at least one socket id, and a disconnect
\* that takes the last socket id out of a record deletes the record.
C16_RecordHasConnection ==
    /\ [](\A r \in DOMAIN rooms :
             \A i \in 1..Len(rooms[r].users) : Len(rooms[r].users[i].sockets) >= 1)
    /\ [][\A s \in Conns :
             disconnect(s)
                 => \A r \in DOMAIN rooms :
                       (/\ s \in DOMAIN socketToRoomMap /\ socketToRoomMap[s] = r
                        /\ UsersHas(rooms[r].users, s)
                        /\ UsersGet(rooms[r].users, s).sockets = <<s>>)
                           => ~(r \in DOMAIN rooms' /\ UsersHas(rooms'[r].users, s))]_vars
\* one of two members of a room has just closed: its record is gone, the
\* other record is in place with its socket id
C16_Witness ==
    /\ Len(out) = 2 /\ out[1].ev = "userLeft"
    /\ \E c \in Conns, r \in DOMAIN rooms :
          /\ status[c] = "closed"
          /\ ~UsersHas(rooms[r].users, c)
          /\ Len(rooms[r].users) = 1
          /\ rooms[r].users[1].sockets = << rooms[r].users[1].id >>
          /\ status[rooms[r].users[1].id] = "open"
          /\ out[2].ev = "userList" /\ Len(out[2].data) = 1

\* every emission of o is a member list
AllUserLists(o) == \A i \in 1..Len(o) : o[i].ev = "userList"

\* C17: a presence refresh changes no room, no member record and no registry
\* entry, and the list it emits is the list a second refresh of the same room
\* emits right after it.
C17_RefreshIdempotent ==
    [][\A s \in Conns, r \in RoomIds :
          (AllUserLists(out') /\ requestUserList(s, r))
              => /\ UNCHANGED <<status, rooms, socketToRoomMap, socketToClientMap, socketRooms>>
                 /\ LET again == IF r \in DOMAIN rooms'
                                 THEN PlainUserList(rooms'[r].users) ELSE <<>>
                        helper == IF r \in DOMAIN rooms
                                  THEN HelperUserList(rooms[r].users) ELSE <<>>
                        helperAgain == IF r \in DOMAIN rooms'
                                       THEN HelperUserList(rooms'[r].users) ELSE <<>>
                    IN /\ \A i \in 1..Len(out') : out'[i].data = again
                       /\ helper = helperAgain]_vars
\* a refresh has just sent the list of a room of two members to the requester
\* and to the room
C17_Witness ==
    /\ Len(out) = 2
    /\ out[1].ev = "userList" /\ out[2].ev = "userList"
    /\ Cardinality(out[1].to) = 1
    /\ Len(out[1].data) = 2
    /\ out[2].data = out[1].data
    /\ Cardinality(out[2].to) = 2

\* the member records of room r in the store rs, none if r is not in it
UsersOf(rs, r) == IF r \in DOMAIN rs THEN rs[r].users ELSE <<>>
\* the list l has one entry for each record of users, in the order of users
ListsAll(l, users) ==
    /\ Len(l) = Len(users)
    /\ \A i \in 1..Len(users) :
          /\ l[i].id = users[i].id
          /\ l[i].username = users[i].username
          /\ l[i].peerId = users[i].peerId
\* no two records of users have the same id or names equal ignoring case
NoTwins(users) ==
    \A i, j \in 1..Len(users) :
        i # j => /\ users[i].id # users[j].id
                 /\ toLowerCase(users[i].username) # toLowerCase(users[j].username)
\* the records of now that were in before are in the same order as before,
\* and the records that were not come after them
KeepsOrder(before, now) ==
    \A i, j \in 1..Len(now) :
        (i < j /\ UsersHas(before, now[j].id))
            => /\ UsersHas(before, now[i].id)
               /\ UsersIndex(before, now[i].id) < UsersIndex(before, now[j].id)

\* C18: in every room the four constructions of the member list (join,
\* disconnect, signaling announcement and refresh, and the refresh of
\* server-helper.js) give the same list: one entry per member record, in the order
\* of the records, no two names equal ignoring case; the records stay in the
\* order of their first join; and the list each handler emits is that list.
C18_MemberListFaithful ==
    /\ [](\A r \in DOMAIN rooms :
             LET users == rooms[r].users
             IN /\ NoTwins(users)
                /\ ListsAll(JoinUserList(users), users)
                /\ ListsAll(DisconnectUserList(users), users)
                /\ ListsAll(PlainUserList(users), users)
                /\ ListsAll(HelperUserList(users), users))
    /\ [][/\ \A r \in RoomIds : KeepsOrder(UsersOf(rooms, r), UsersOf(rooms', r))
          /\ \A s \in Conns, r \in RoomIds :
                /\ (\E u \in Names : Admitted(s, u, r) /\ joinRoom(s, u, r))
                       => ListsAll(out'[2].data, rooms'[r].users)
                /\ (/\ Len(out') = 1 /\ AllUserLists(out')
                    /\ LookupRoom(s) = r
                    /\ \E id \in PeerIds : peerId(s, id))
                       => ListsAll(out'[1].data, rooms'[r].users)
                /\ (DisconnectShaped(out') /\ DisconnectRoom(s) = r /\ disconnect(s))
                       => \A i \in 1..Len(out') :
                              out'[i].ev = "userList"
                                  => ListsAll(out'[i].data, UsersOf(rooms', r))
                /\ (AllUserLists(out') /\ requestUserList(s, r))
                       => \A i \in 1..Len(out') :
                              ListsAll(out'[i].data, UsersOf(rooms, r))]_vars
\* a refresh has just listed a room of two members of whom the second has
\* announced a signaling id
C18_Witness ==
    /\ Len(out) = 2
    /\ out[1].ev = "userList" /\ out[2].ev = "userList"
    /\ Len(out[1].data) = 2
    /\ out[1].data[1].peerId = Null
    /\ out[1].data[2].peerId # Null
    /\ \E r \in DOMAIN rooms : ListsAll(out[1].data, rooms[r].users)

\* C19: a join of room r under a name is refused exactly when another
\* connected socket holds a member record of r with that name, ignoring case.
C19_NameHeldWhileConnected ==
    [][\A s \in Conns, u \in Names, r \in RoomIds :
          (status[s] = "open" /\ joinRoom(s, u, r))
              => (IsRejection(out')
                    <=> \E a \in Conns \ {s} :
                           /\ status[a] = "open"
                           /\ r \in DOMAIN rooms
                           /\ UsersHas(rooms[r].users, a)
                           /\ toLowerCase(UsersGet(rooms[r].users, a).username)
                                 = toLowerCase(u))]_vars

\* C20: an edit from a socket that holds no member record of room r leaves
\* the buffer of r as it is, an edit from a socket that holds no member
\* record at all is forwarded to nobody, and the buffer of a room changes only
\* by an edit from a connected socket that holds a member record of it.
C20_NonMemberEditDropped ==
    [][/\ \A s \in Conns, code \in Codes, r \in DOMAIN rooms :
             (/\ status[s] = "open"
              /\ ~UsersHas(rooms[r].users, s)
              /\ codeChange(s, code))
                 => /\ r \in DOMAIN rooms'
                    /\ rooms'[r].code = rooms[r].code
                    /\ (\A q \in DOMAIN rooms : ~UsersHas(rooms[q].users, s))
                          => \A i \in 1..Len(out') : out'[i].to = {}
       /\ \A r \in DOMAIN rooms \cap DOMAIN rooms' :
             rooms'[r].code # rooms[r].code
                 => \E s \in Conns, code \in Codes :
                        /\ status[s] = "open"
                        /\ UsersHas(rooms[r].users, s)
                        /\ codeChange(s, code)]_vars

\* the step emits nothing, or one chat message or one member list
RelayShaped(o) ==
    \/ Len(o) = 0
    \/ Len(o) = 1 /\ o[1].ev \in {"chat-message", "userList"}

\* C21: a chat message or a signaling announcement from a socket that has a
\* registry entry but no member record in the room the entry names is dropped:
\* no room changes and nothing is emitted.
C21_StrangerRelayDropped ==
    [][\A s \in Conns :
          (/\ status[s] = "open"
           /\ s \in DOMAIN socketToRoomMap
           /\ ~UsersHas(UsersOf(rooms, socketToRoomMap[s]), s)
           /\ RelayShaped(out')
           /\ \/ \E m \in ChatPayloads : chatMessage(s, m)
              \/ \E id \in PeerIds : peerId(s, id))
              => /\ UNCHANGED <<rooms, socketToRoomMap, socketRooms>>
                 /\ out' = <<>>]_vars
\* socket 1 is the only member of a room, socket 2 is registered to that room
\* by its query without a member record, both are connected, and the event
\* handled last emitted nothing
C21_Witness ==
    /\ status[1] = "open" /\ status[2] = "open"
    /\ \A c \in Conns \ {1, 2} : status[c] = "idle"
    /\ 2 \in DOMAIN socketToRoomMap
    /\ socketToRoomMap[2] \in DOMAIN rooms
    /\ Len(rooms[socketToRoomMap[2]].users) = 1
    /\ rooms[socketToRoomMap[2]].users[1].id = 1
    /\ DOMAIN rooms = {socketToRoomMap[2]}
    /\ 1 \in DOMAIN socketToRoomMap /\ socketToRoomMap[1] = socketToRoomMap[2]
    /\ events > 0
    /\ out = <<>>

\* the rooms whose members or buffer the step changes
RoomsTouched ==
    {r \in DOMAIN rooms \cup DOMAIN rooms' :
        \/ r \notin DOMAIN rooms
        \/ r \notin DOMAIN rooms'
        \/ rooms'[r] # rooms[r]}

\* C22: the handling of one event changes the members or the buffer of at
\* most one room.
C22_RoomsIsolated == [][Cardinality(RoomsTouched) <= 1]_vars
\* two rooms with a member each, the buffer of one holding an edit
C22_Witness ==
    /\ DOMAIN rooms = RoomIds
    /\ rooms["r1"].code # rooms["r2"].code
    /\ \A r \in RoomIds : Len(rooms[r].users) >= 1
    /\ Len(out) = 1 /\ out[1].ev = "code-change"

\* C26: a socket holds a member record in at most one room.
C26_OneRoomPerConnection ==
    \A s \in Conns :
        Cardinality({r \in DOMAIN rooms : UsersHas(rooms[r].users, s)}) <= 1

\* C27: when no socket is connected the store holds no room.
C27_NothingOutlivesConnections ==
    (\A c \in Conns : status[c] # "open") => DOMAIN rooms = {}

\* C28: a presence refresh asked by a socket that holds no member record of
\* the room it names hands out no member list of that room and reaches no
\* other socket.
C28_RefreshOwnRoomOnly ==
    [][\A s \in Conns, r \in RoomIds :
          (/\ AllUserLists(out')
           /\ ~UsersHas(UsersOf(rooms, r), s)
           /\ requestUserList(s, r))
              => \A i \in 1..Len(out') :
                    /\ out'[i].to \subseteq {s}
                    /\ out'[i].data = <<>>]_vars

\* C29: a connected socket is subscribed to the broadcast group of room r
\* exactly when it holds a member record of r.
C29_SubscribedIffMember ==
    \A c \in Conns, r \in RoomIds :
        status[c] = "open"
            => ((\E i \in 1..Len(socketRooms[c]) : socketRooms[c][i] = r)
                   <=> UsersHas(UsersOf(rooms, r), c))

\* C30: when no edit is on its way to the service and no forwarded edit is on
\* its way to a client, every connected member of a room that is subscribed
\* to it, the senders of edits included, shows the buffer of the room.
C30_AllConverge ==
    ((\A c \in Conns : Len(uplink[c]) = 0 /\ Len(inbox[c]) = 0)
        => \A r \in DOMAIN rooms :
              \A c \in MemberConns(status, rooms, socketToRoomMap, r)
                       \cap Group(socketRooms, status, r) :
                  clientCode[c] = rooms[r].code)

\* some member record of room r holds a name equal to u ignoring case
NameHeld(u, r) ==
    \E i \in 1..Len(UsersOf(rooms, r)) :
        toLowerCase(UsersOf(rooms, r)[i].username) = toLowerCase(u)

\* C23: the uniqueness check answers available exactly when the room does
\* not exist or no member record of it holds the name ignoring case; for a
\* socket without a member record in the room the answer is the outcome of a
\* join handled next; and the check, with Home acting on its answer, changes
\* nothing in the service.
C23_CheckMatchesJoin ==
    /\ [](\A u \in Names, r \in RoomIds :
             /\ (checkUsername(u, r) = "available") <=> ~NameHeld(u, r)
             /\ \A s \in Conns :
                   ~UsersHas(UsersOf(rooms, r), s)
                       => ((checkUsername(u, r) = "available")
                             <=> ~(r \in DOMAIN rooms
                                   /\ usernameTaken(rooms[r].users, u, s))))
    /\ [][\A t \in Tabs :
             (/\ tabs[t].page = "checking"
              /\ tabs'[t].page # "checking"
              /\ tabs'[t].response \in {"available", "taken"})
                 => /\ UNCHANGED <<status, rooms, socketToRoomMap,
                                   socketToClientMap, socketRooms>>
                    /\ (tabs'[t].page = "editor")
                          <=> ~NameHeld(tabs[t].username, tabs[t].roomId)
                    /\ (tabs'[t].page = "home") <=> (tabs'[t].error = "taken")]_vars
\* Home shows that the name is taken: the room has one member, whose name
\* differs from the one asked for in case only
C23_Witness ==
    \E t \in Tabs :
        /\ tabs[t].page = "home" /\ tabs[t].error = "taken"
        /\ tabs[t].roomId \in DOMAIN rooms
        /\ Len(rooms[tabs[t].roomId].users) = 1
        /\ rooms[tabs[t].roomId].users[1].username # tabs[t].username
        /\ NameHeld(tabs[t].username, tabs[t].roomId)

\* tabs t1 and t2 are both in the Editor, each after an available answer,
\* for the same room and names equal ignoring case
Racing(t1, t2) ==
    /\ t1 # t2
    /\ tabs[t1].page = "editor" /\ tabs[t2].page = "editor"
    /\ tabs[t1].roomId = tabs[t2].roomId
    /\ toLowerCase(tabs[t1].username) = toLowerCase(tabs[t2].username)

\* C24: of two tabs that were both answered available for the same room and
\* names equal ignoring case, never both are admitted; the join handled while
\* the other is a member is refused, and a join handled while no member holds
\* the name is admitted.
C24_RaceHasOneWinner ==
    /\ [](\A t1, t2 \in Tabs :
             Racing(t1, t2)
                 => ~(tabs[t1].phase = "joined" /\ tabs[t2].phase = "joined"))
    /\ [][\A t1 \in Tabs :
             (tabs[t1].phase = "attached" /\ tabs'[t1].phase # "attached")
                 => /\ (\E t2 \in Tabs : Racing(t1, t2) /\ tabs[t2].phase = "joined")
                          => tabs'[t1].phase = "rejected"
                    /\ ~NameHeld(tabs[t1].username, tabs[t1].roomId)
                          => tabs'[t1].phase = "joined"]_vars
\* both tabs were answered available and have sent their join under names
\* that differ in case only: one is a member, the other has been refused
C24_Witness ==
    \E t1, t2 \in Tabs :
        /\ Racing(t1, t2)
        /\ tabs[t1].username # tabs[t2].username
        /\ tabs[t1].phase = "joined"
        /\ tabs[t2].phase = "rejected"
        /\ Len(rooms[tabs[t1].roomId].users) = 1

\* C25: a join is sent once per socket and only by an Editor that has just
\* opened its socket; the Editor is entered only from a submitted form; a
\* refused Editor waits for its timer and then shows Home with the error, the
\* name and the room key it had, its socket closed.
C25_NoAutoRetry ==
    [][\A t \in Tabs :
          /\ (tabs[t].phase = "attached" /\ tabs'[t].phase \in {"joined", "rejected"})
                => ~joinSent[tabs[t].sock]
          /\ (tabs'[t].phase = "attached" /\ tabs[t].phase # "attached")
                => /\ tabs[t].phase = "connecting"
                   /\ tabs'[t].sock # tabs[t].sock
                   /\ status[tabs'[t].sock] = "idle"
          /\ (tabs'[t].phase = "connecting" /\ tabs[t].phase # "connecting")
                => tabs[t].page = "checking"
          /\ (tabs'[t].page = "checking" /\ tabs[t].page # "checking")
                => tabs[t].page = "home"
          /\ (tabs[t].phase = "rejected" /\ tabs'[t] # tabs[t])
                => /\ tabs'[t] = [tabs[t] EXCEPT !.phase = "timer"]
                   /\ UNCHANGED <<status, rooms, socketToRoomMap, socketRooms>>
          /\ (tabs[t].phase = "timer" /\ tabs'[t] # tabs[t])
                => /\ tabs'[t].page = "home"
                   /\ tabs'[t].phase = "none"
                   /\ tabs'[t].error = "rejected"
                   /\ tabs'[t].username = tabs[t].username
                   /\ tabs'[t].roomId = tabs[t].roomId
                   /\ tabs'[t].sock = NoSocket
                   /\ status'[tabs[t].sock] = "closed"]_vars
\* a tab whose join was refused shows Home again with the error, the name
\* and the room key it had; the name is held by a member of that room and
\* the refused socket is closed
C25_Witness ==
    \E t \in Tabs :
        /\ tabs[t].page = "home"
        /\ tabs[t].error = "rejected"
        /\ tabs[t].sock = NoSocket
        /\ tabs[t].username # ""
        /\ NameHeld(tabs[t].username, tabs[t].roomId)
        /\ \E c \in Conns :
              /\ status[c] = "closed"
              /\ joinSent[c]
              /\ \A r \in DOMAIN rooms : ~UsersHas(rooms[r].users, c)
        /\ out = <<>>

\* C31: in every room each member record has its own socket id as key, no
\* two records share a key, and the connection list of a record is exactly
\* its key; a disconnect that finds the record of the closing socket deletes
\* it and announces the departure, and no disconnect keeps a record it found.
C31_OneConnectionPerRecord ==
    /\ [](\A r \in DOMAIN rooms :
             \A i \in 1..Len(rooms[r].users) :
                 /\ rooms[r].users[i].id \in Conns
                 /\ rooms[r].users[i].sockets = << rooms[r].users[i].id >>
                 /\ \A j \in 1..Len(rooms[r].users) :
                       j # i => rooms[r].users[j].id # rooms[r].users[i].id)
    /\ [][\A s \in Conns :
             (DisconnectShaped(out') /\ disconnect(s))
                 => LET found == UsersHas(UsersOf(rooms, DisconnectRoom(s)), s)
                    IN /\ Len(out') # 1
                       /\ found => /\ Len(out') = 2
                                   /\ out'[1].ev = "userLeft"
                                   /\ ~UsersHas(UsersOf(rooms', DisconnectRoom(s)), s)
                       /\ ~found => out' = <<>> /\ rooms' = rooms]_vars
\* one of two members has just closed; the member that stays had announced a
\* signaling id and its record still lists its own socket only
C31_Witness ==
    /\ Len(out) = 2 /\ out[1].ev = "userLeft"
    /\ out[2].ev = "userList" /\ Len(out[2].data) = 1
    /\ out[2].data[1].peerId # Null
    /\ \E r \in DOMAIN rooms :
          /\ Len(rooms[r].users) = 1
          /\ rooms[r].users[1].sockets = << out[2].data[1].id >>

\* C32: a join for room r from a socket that holds a member record of r is
\* admitted when it asks for the name its record holds, and is refused only
\* when another record of r holds the name asked for; when admitted, the
\* record of the socket is replaced where it stands, with the name asked for
\* and no signaling id, the other records and the member count are as before,
\* and no second record of the socket exists.
C32_RejoinReplacesInPlace ==
    [][\A s \in Conns, u \in Names, r \in RoomIds :
          (/\ status[s] = "open"
           /\ UsersHas(UsersOf(rooms, r), s)
           /\ IsJoin(out') \/ IsRejection(out')
           /\ joinRoom(s, u, r))
              => LET users == rooms[r].users
                     i == UsersIndex(users, s)
                 IN /\ toLowerCase(u) = toLowerCase(users[i].username) => IsJoin(out')
                    /\ IsRejection(out')
                          => \E j \in 1..Len(users) :
                                /\ j # i
                                /\ toLowerCase(users[j].username) = toLowerCase(u)
                    /\ IsJoin(out')
                          => /\ Len(rooms'[r].users) = Len(users)
                             /\ rooms'[r].users[i].id = s
                             /\ rooms'[r].users[i].username = u
                             /\ rooms'[r].users[i].peerId = Null
                             /\ \A j \in 1..Len(users) :
                                   j # i => /\ rooms'[r].users[j] = users[j]
                                            /\ rooms'[r].users[j].id # s
                             /\ out'[4].data.userCount = Len(users)]_vars
\* socket 1, the first of the two members of a room, has just joined that
\* room again: it is still the first record, socket 2 the second
C32_Witness ==
    /\ IsJoin(out)
    /\ out[4].to = {1}
    /\ out[4].data.userCount = 2
    /\ LET r == out[4].data.roomId
       IN /\ Len(rooms[r].users) = 2
          /\ rooms[r].users[1].id = 1
          /\ rooms[r].users[2].id = 2

\* every emission of o carries buffer text
AllCodeChanges(o) == Len(o) <= 1 /\ \A i \in 1..Len(o) : o[i].ev = "code-change"
\* every emission of o carries a chat message
AllChats(o) == Len(o) <= 1 /\ \A i \in 1..Len(o) : o[i].ev = "chat-message"

\* C34: the buffer text and the chat messages the service emits for room r
\* go only to connected sockets that are registered to r and hold a member
\* record of r: the forwarded edit and the relayed chat message to such
\* sockets of the sender's room, the buffer of an admitted join to the joiner.
C34_RoomTrafficToMembersOnly ==
    [][\A s \in Conns :
          /\ \A code \in Codes :
                (AllCodeChanges(out') /\ codeChange(s, code))
                    => \A i \in 1..Len(out') :
                          out'[i].to \subseteq
                              MemberConns(status', rooms', socketToRoomMap', LookupRoom(s))
          /\ \A m \in ChatPayloads :
                (AllChats(out') /\ chatMessage(s, m))
                    => \A i \in 1..Len(out') :
                          out'[i].to \subseteq
                              MemberConns(status', rooms', socketToRoomMap', LookupRoom(s))
          /\ \A u \in Names, r \in RoomIds :
                (IsJoin(out') /\ joinRoom(s, u, r))
                    => \A i \in 1..Len(out') :
                          out'[i].ev \in {"code-change", "chat-message"}
                              => /\ out'[i].to = {s}
                                 /\ s \in MemberConns(status', rooms', socketToRoomMap', r)]_vars
\* a chat message has just been relayed to the one other member of a room
\* while a third socket, registered to the room by its query without a member
\* record, is connected
C34_Witness ==
    /\ Len(out) = 1 /\ out[1].ev = "chat-message"
    /\ Cardinality(out[1].to) = 1
    /\ \E c \in Conns, r \in DOMAIN rooms :
          /\ status[c] = "open"
          /\ c \in DOMAIN socketToRoomMap /\ socketToRoomMap[c] = r
          /\ ~UsersHas(rooms[r].users, c)
          /\ c \notin out[1].to
          /\ out[1].data.sender \in RecordHolders(rooms, r)
          /\ out[1].to \subseteq RecordHolders(rooms, r)

\* C35: a presence refresh that names a room the store does not hold emits
\* one empty member list, to the requesting socket only, and changes no room,
\* no registry entry and no subscription.
C35_RefreshOfMissingRoom ==
    [][\A s \in Conns, r \in RoomIds :
          (/\ status[s] = "open"
           /\ r \notin DOMAIN rooms
           /\ AllUserLists(out')
           /\ requestUserList(s, r))
              => /\ Len(out') = 1
                 /\ out'[1].to = {s}
                 /\ out'[1].data = <<>>
                 /\ UNCHANGED <<status, rooms, socketToRoomMap,
                                socketToClientMap, socketRooms>>]_vars
\* a member of the only room has just asked for the list of the other room
C35_Witness ==
    /\ Len(out) = 1 /\ out[1].ev = "userList"
    /\ out[1].data = <<>>
    /\ Cardinality(DOMAIN rooms) = 1
    /\ \E s \in out[1].to, r \in DOMAIN rooms : UsersHas(rooms[r].users, s)

\* C38: a tab leaves the check with its loading state cleared; it opens the
\* Editor exactly when the check answered available or the request failed
\* with 404, and then without an error and before any socket is opened; when
\* the check answered taken or the request failed otherwise it shows the form
\* again with an error and the fields as submitted; the Editor is opened only
\* out of a check, a socket only by an opened Editor, and the loading state is
\* set exactly while the check is pending.
C38_FormGatesEditor ==
    /\ [](\A t \in Tabs : tabs[t].isLoading <=> tabs[t].page = "checking")
    /\ [][\A t \in Tabs :
             /\ (tabs[t].page = "checking" /\ tabs'[t].page # "checking")
                   => /\ ~tabs'[t].isLoading
                      /\ tabs'[t].username = tabs[t].username
                      /\ tabs'[t].roomId = tabs[t].roomId
                      /\ (tabs'[t].page = "editor")
                            <=> tabs'[t].response \in {"available", "404"}
                      /\ tabs'[t].response = "available"
                            => checkUsername(tabs[t].username, tabs[t].roomId) = "available"
                      /\ tabs'[t].response = "taken"
                            => checkUsername(tabs[t].username, tabs[t].roomId) = "taken"
                      /\ tabs'[t].page = "editor"
                            => /\ tabs'[t].error = ""
                               /\ tabs'[t].sock = NoSocket
                               /\ UNCHANGED status
                      /\ tabs'[t].page # "editor"
                            => /\ tabs'[t].page = "home"
                               /\ tabs'[t].error \in {"taken", "failed"}
                               /\ tabs'[t].phase = "none"
                               /\ UNCHANGED status
             /\ (tabs'[t].page = "editor" /\ tabs[t].page # "editor")
                   => tabs[t].page = "checking"
             /\ (tabs'[t].sock # tabs[t].sock /\ tabs'[t].sock # NoSocket)
                   => /\ tabs[t].page = "editor"
                      /\ tabs[t].response \in {"available", "404"}]_vars
\* a tab whose check failed with 404 has opened the Editor under a name a
\* member of the room holds, while another tab shows the form with the error
\* of a check that failed otherwise
C38_Witness ==
    \E t1, t2 \in Tabs :
        /\ tabs[t1].page = "editor"
        /\ tabs[t1].response = "404"
        /\ ~tabs[t1].isLoading
        /\ NameHeld(tabs[t1].username, tabs[t1].roomId)
        /\ tabs[t2].page = "home"
        /\ tabs[t2].error = "failed"
        /\ tabs[t2].username # ""

\* the member list of the Editors' room as a refresh computes it
CurrentList == PlainUserList(UsersOf(rooms, PresenceRoom))
\* the Editor behind socket c is shown and its socket is connected
Stays(c) == presence[c].mounted = "yes" /\ status[c] = "open"

\* C36: from some moment on every Editor that is still shown with its socket
\* connected displays the member list of its room as it then is, whatever
\* userList events it missed before; and once an Editor has left, its socket
\* is closed, nothing is on its way to it and the service sends it nothing.
C36_ListSelfHeals ==
    /\ \A c \in Conns :
          <>[](Stays(c) => presence[c].connectedUsers = CurrentList)
    /\ [](\A c \in Conns :
             presence[c].mounted = "gone"
                 => status[c] = "closed" /\ presence[c].lists = <<>>)
    /\ [][\A c \in Conns :
             presence[c].mounted = "gone"
                 => \A i \in 1..Len(out') : c \notin out'[i].to]_vars
\* an Editor that missed a userList event displays the list of its room, of
\* two members of which one has announced a signaling id, and nothing is on
\* its way to it
C36_Witness ==
    \E c \in Conns :
        /\ Stays(c)
        /\ presence[c].missed > 0
        /\ presence[c].lists = <<>>
        /\ Len(CurrentList) = 2
        /\ \E i \in 1..2 : CurrentList[i].peerId # Null
        /\ presence[c].connectedUsers = CurrentList

\* C37: once the Peer of an Editor has opened, the Editor has been admitted
\* and no announcement of it is on its way, its member record holds a
\* signaling id.
C37_SignalingIdAnnounced ==
    \A c \in Conns :
        (/\ Stays(c)
         /\ presence[c].peer = "open"
         /\ ~presence[c].announce
         /\ UsersHas(UsersOf(rooms, PresenceRoom), c))
            => UsersGet(rooms[PresenceRoom].users, c).peerId # Null

====
